---- MODULE Spec2Model ----
(***************************************************************************)
(* Model of the ChatGPT Clone backend: the LLM service                     *)
(* (src/backend/service_llm/llm.py: supervisor main, PUT /model, /relay)   *)
(* and the API gateway (src/backend/service_api/api.py: /query,            *)
(* /tokens/max, /history/clear, /history/list).                            *)
(*                                                                         *)
(* Both services are FastAPI applications served by one uvicorn worker.    *)
(* Their handlers are coroutines on a single event loop: a handler runs    *)
(* until it reaches an await, so model() and query(), which contain no     *)
(* await (they block in time.sleep, Popen and pycurl), run to completion   *)
(* once started, while relay() gives the loop back at its two awaits.      *)
(* The variable loop is the handler that occupies the LLM event loop.      *)
(***************************************************************************)
EXTENDS Integers, Sequences, FiniteSets, TLC

(***************************************************************************)
(* Bounds                                                                  *)
(***************************************************************************)
MaxRequests == 2
MaxQueries == 2
MaxEdits == 1

(***************************************************************************)
(* Values                                                                  *)
(***************************************************************************)
\* Python None for a pid (JSON null); real pids are positive
None == 0
\* JSON null for the file of a remote model
NoFile == "null"

\* The entries of config['model'] as listed in llm.json, pids still null
Registry ==
  << [name |-> <<"A">>, file |-> "a.gguf", auth |-> "sso-key", pid |-> None],
     [name |-> <<"B">>, file |-> "b.gguf", auth |-> "sso-key", pid |-> None],
     [name |-> <<"C">>, file |-> "c.gguf", auth |-> "sso-key", pid |-> None],
     [name |-> <<"R">>, file |-> NoFile,   auth |-> "Bearer",  pid |-> None] >>

RegistryNames == {Registry[i].name : i \in DOMAIN Registry}

\* The {model} path parameters clients send: names as sequences of characters,
\* known and unknown, bare and quoted
RawNames ==
  { <<"A">>, <<"B">>, <<"C">>, <<"R">>, <<"Z">>, <<"'", "B", "'">> }

\* What the upstream backend can answer to a forwarded request
UpstreamReplies ==
  { [kind |-> "response", status_code |-> 200, content |-> "ok"],
    [kind |-> "response", status_code |-> 404, content |-> "not found"],
    [kind |-> "response", status_code |-> 503, content |-> "overloaded"],
    [kind |-> "error",    status_code |-> 0,   content |-> "ReadTimeout"] }

VARIABLES
  llm_json,   \* the content of the config file llm.json
  procs,      \* the pids of the live operating-system processes
  main,       \* the supervisor process: position and its in-memory config
  loop,       \* the handler occupying the LLM event loop (Idle when none)
  h,          \* the locals of the running model() handler
  pending,    \* the PUT /model requests received and not yet handled
  issued,     \* how many requests clients have sent to the LLM service
  last,       \* the PUT /model request answered last, and the answer
  race,       \* history: two PUT /model requests that were pending together
  rreq,       \* the /relay requests, in order of arrival
  edits,      \* how many times llm.json was edited from outside
  history,    \* api.py: the global list of conversation turns
  db,         \* api.py: the rows of the sqlite table history
  apiconfig,  \* api.py: the global config dictionary of the gateway
  q,          \* api.py: the locals of the running query() handler
  queries,    \* how many /query requests clients have sent
  qlast,      \* the /query answered last: its inputs and its result
  api_json,   \* api.py: the content of the config file api.json
  alast,      \* the /tokens or /history request answered last, its result
  qstat       \* how many /query requests wait for the loop, how many ended

llmvars == <<llm_json, procs, main, loop, h, pending, issued, last, race, rreq,
            edits>>
apivars == <<history, db, apiconfig, q, queries, qlast, api_json, alast,
            qstat>>
vars == <<llm_json, procs, main, loop, h, pending, issued, last, race, rreq,
          edits, history, db, apiconfig, q, queries, qlast, api_json, alast,
          qstat>>

(***************************************************************************)
(* llm.py helpers                                                          *)
(***************************************************************************)
MaxOf(S) == CHOOSE x \in S : \A y \in S : y <= x

\* model.replace('"', '').replace("'", '')
Strip(model) == SelectSeq(model, LAMBDA c : c \notin {"\"", "'"})

\* configLoad with model_index preset to the first entry before the loop
configLoadDefault(file) ==
  LET match == {i \in DOMAIN file.model : file.model[i].name = file.api.model}
  IN  [config |-> file,
       model_index |-> IF match = {} THEN 1 ELSE MaxOf(match),
       raised |-> FALSE]

\* configLoad: the config and the index of the active model; the loop keeps
\* the last match, and model_index 0 stands for the unbound local, which
\* makes the return statement raise UnboundLocalError
configLoad(file) ==
  LET match == {i \in DOMAIN file.model : file.model[i].name = file.api.model}
  IN  [config |-> file,
       model_index |-> IF match = {} THEN 0 ELSE MaxOf(match),
       raised |-> (match = {})]

\* configStore that writes the entries without their pids
configStoreNoPids(file, config_data) ==
  [config_data EXCEPT !.model =
     [i \in DOMAIN config_data.model |->
        [config_data.model[i] EXCEPT !.pid = None]]]

\* configStore: the file is opened for writing and gets the JSON text of
\* the whole dictionary, whatever it held before
configStore(file, config_data) ==
  config_data

\* terminate that kills the model processes and keeps their pids recorded
terminateKeepsPids(config, model, api, live) ==
  LET mpids == IF model
               THEN {config.model[i].pid : i \in DOMAIN config.model} \ {None}
               ELSE {}
      l1 == live \ mpids
      apikill == api /\ config.api.pid # None
      raised == apikill /\ config.api.pid \notin l1
  IN  [config |-> IF apikill /\ ~raised
                  THEN [config EXCEPT !.api.pid = None] ELSE config,
       live |-> IF apikill THEN l1 \ {config.api.pid} ELSE l1,
       raised |-> raised]

\* terminate that nulls the recorded pids without killing the processes
terminateNoKill(config, model, api, live) ==
  LET c1 == IF model
            THEN [config EXCEPT !.model =
                     [i \in DOMAIN config.model |->
                        [config.model[i] EXCEPT !.pid = None]]]
            ELSE config
      apikill == api /\ config.api.pid # None
  IN  [config |-> IF apikill THEN [c1 EXCEPT !.api.pid = None] ELSE c1,
       live |-> live,
       raised |-> FALSE]

\* terminate: kill (and wait for) every recorded model pid and the api pid,
\* and null them; os.kill of the api pid is not guarded, so a dead api pid
\* raises out of terminate after the models have been handled
terminate(config, model, api, live) ==
  LET mpids == IF model
               THEN {config.model[i].pid : i \in DOMAIN config.model} \ {None}
               ELSE {}
      c1 == IF model
            THEN [config EXCEPT !.model =
                     [i \in DOMAIN config.model |->
                        [config.model[i] EXCEPT !.pid = None]]]
            ELSE config
      l1 == live \ mpids
      apikill == api /\ config.api.pid # None
      raised == apikill /\ config.api.pid \notin l1
  IN  [config |-> IF apikill /\ ~raised
                  THEN [c1 EXCEPT !.api.pid = None] ELSE c1,
       live |-> IF apikill THEN l1 \ {config.api.pid} ELSE l1,
       raised |-> raised]

\* run_llm that returns the pid it was given instead of the new one
run_llmLosesPid(model, pid, live, newpid, ok) ==
  LET l1 == IF pid # None THEN live \ {pid} ELSE live
      started == ok /\ model # NoFile
  IN  [pid |-> pid,
       live |-> IF started THEN l1 \cup {newpid} ELSE l1,
       started |-> started]

\* run_llm: kill the process of the pid passed in, then Popen the server;
\* whatever happens the finally clause returns pid, so a failed Popen
\* (ok = FALSE, or a None in the command for a model without file) returns
\* the pid that was passed in
run_llm(model, pid, live, newpid, ok) ==
  LET l1 == IF pid # None THEN live \ {pid} ELSE live
      started == ok /\ model # NoFile
  IN  [pid |-> IF started THEN newpid ELSE pid,
       live |-> IF started THEN l1 \cup {newpid} ELSE l1,
       started |-> started]

\* run_api: the same for the uvicorn process serving llm:app
run_api(pid, live, newpid, ok) ==
  LET l1 == IF pid # None THEN live \ {pid} ELSE live
  IN  [pid |-> IF ok THEN newpid ELSE pid,
       live |-> IF ok THEN l1 \cup {newpid} ELSE l1,
       started |-> ok]

\* the pid Popen returns: one no live process has and no config records
\* (pids are interchangeable, the least one stands for all of them)
newpid(live, configs) ==
  LET used == live \cup UNION { {c.api.pid} \cup {c.model[i].pid : i \in DOMAIN c.model}
                                : c \in configs }
  IN  CHOOSE p \in 1..(Cardinality(used) + 1) : p \notin used

(***************************************************************************)
(* api.py values: a Python value is its type, its text (str, bytes, bool)  *)
(* and, for a dict decoded from JSON, its leaves as <<path, text>> pairs   *)
(***************************************************************************)
PyNone == [ty |-> "NoneType", s |-> "", d |-> {}]
PyStr(x) == [ty |-> "str", s |-> x, d |-> {}]
PyBytes(x) == [ty |-> "bytes", s |-> x, d |-> {}]
PyBool(x) == [ty |-> "bool", s |-> x, d |-> {}]
PyDict(leaves) == [ty |-> "dict", s |-> "", d |-> leaves]

ContentPath == <<"choices", "0", "message", "content">>

\* {"choices": [{"message": {"content": a}}]}
Completion(a) == PyDict({ <<ContentPath, a>> })

\* the model names and prompts of the /query requests clients send
QueryModels == {"A", "B"}
Prompts == {"why"}

\* what a transfer to the LLM service ends with: a curl error, a body that
\* is JSON (given decoded), or a body that is not
SwitchTransfers ==
  { [kind |-> "error", json |-> FALSE, val |-> PyNone],
    [kind |-> "body",  json |-> TRUE,  val |-> PyBool("true")],
    [kind |-> "body",  json |-> TRUE,  val |-> PyBool("false")] }

RelayTransfers ==
  { [kind |-> "error", json |-> FALSE, val |-> PyNone],
    [kind |-> "body",  json |-> TRUE,  val |-> Completion("hello")],
    [kind |-> "body",  json |-> TRUE,  val |-> Completion("")],
    [kind |-> "body",  json |-> TRUE,  val |-> PyDict({ << <<"error">>, "bad" >> })],
    [kind |-> "body",  json |-> FALSE, val |-> PyStr("ReadTimeout")] }

\* request(): None when curl raises, the decoded JSON when the body is JSON,
\* the raw bytes otherwise
request(t) ==
  IF t.kind = "error" THEN PyNone
  ELSE IF t.json THEN t.val
  ELSE PyBytes(t.val.s)

\* bool(value), as the if statements evaluate it
Truthy(v) ==
  CASE v.ty = "NoneType" -> FALSE
    [] v.ty = "bool"     -> v.s = "true"
    [] v.ty = "dict"     -> v.d # {}
    [] OTHER             -> v.s # ""

\* response['choices'][0]['message']['content']: the content, or raised when
\* the value is no dict or lacks the path
extract(v) ==
  IF v.ty = "dict" /\ \E l \in v.d : l[1] = ContentPath
  THEN [raised |-> FALSE,
        value |-> PyStr((CHOOSE l \in v.d : l[1] = ContentPath)[2])]
  ELSE [raised |-> TRUE, value |-> v]

\* json.dumps(history) raises TypeError on a bytes content
Dumpable(hist) == \A i \in DOMAIN hist : hist[i].content.ty # "bytes"

\* historyStore that lets the sqlite error reach its caller
historyStoreRaises(rows, model, max_tokens, role, content, ok) ==
  LET stored == ok /\ content.ty \in {"str", "bytes"} IN
  [rows |-> IF stored
            THEN Append(rows, [model |-> model, max_tokens |-> max_tokens,
                               role |-> role, content |-> content])
            ELSE rows,
   failed |-> ~stored,
   raised |-> ~stored]

\* historyStore: the row is inserted unless sqlite raises (ok = FALSE), the
\* content is None (NOT NULL) or of a type sqlite cannot bind; every error
\* is logged and swallowed, so the call never raises
historyStore(rows, model, max_tokens, role, content, ok) ==
  LET stored == ok /\ content.ty \in {"str", "bytes"} IN
  [rows |-> IF stored
            THEN Append(rows, [model |-> model, max_tokens |-> max_tokens,
                               role |-> role, content |-> content])
            ELSE rows,
   failed |-> ~stored,
   raised |-> FALSE]

\* historyLoad: SELECT role, content FROM history
historyLoad(rows) ==
  [i \in DOMAIN rows |-> [role |-> rows[i].role, content |-> rows[i].content]]

\* the payload with the last turn as its only message
json_data_queryLastTurn(model, hist, max_tokens) ==
  [model |-> model, messages |-> <<hist[Len(hist)]>>, max_tokens |-> max_tokens]

\* line 262: the text '{"model":"..", "messages":.., "max_tokens":..}', kept
\* as its three parts
json_data_query(model, hist, max_tokens) ==
  [model |-> model, messages |-> hist, max_tokens |-> max_tokens]

\* historyClear that deletes the rows and keeps the list
historyClearTableOnly(rows, hist, ok) ==
  IF ok
  THEN [rows |-> <<>>, history |-> hist, raised |-> FALSE,
        value |-> PyBool("true")]
  ELSE [rows |-> rows, history |-> hist, raised |-> TRUE, value |-> PyNone]

\* historyClear: DELETE FROM history, then history = [] and True; sqlite is
\* used outside any try, so its error (ok = FALSE: no such table, locked
\* file) leaves the handler before the list is emptied
historyClear(rows, hist, ok) ==
  IF ok
  THEN [rows |-> <<>>, history |-> <<>>, raised |-> FALSE,
        value |-> PyBool("true")]
  ELSE [rows |-> rows, history |-> hist, raised |-> TRUE, value |-> PyNone]

\* historyList: the global list itself
historyList(hist) == hist

\* the {tokens} path parameters clients send; NoTokens is the route without
\* the parameter (tokens=None)
NoTokens == ""
TokenArgs == {NoTokens, "50"}

\* tokensMax: with a value, set it in the global config and write the config
\* to the file; without, return the value of the global config
tokensMax(config, file, tokens) ==
  IF tokens # NoTokens
  THEN LET c == [config EXCEPT !.llm_maxtokens = tokens] IN
       [config |-> c, file |-> c, value |-> PyBool("true")]
  ELSE [config |-> config, file |-> file,
        value |-> PyStr(config.llm_maxtokens)]

(***************************************************************************)
(* Initial state: llm.json as shipped, nothing running                     *)
(***************************************************************************)
Idle == <<"idle", <<>> >>

NoConfig == [api |-> [model |-> <<>>, pid |-> None], model |-> Registry]

hIdle == [config |-> NoConfig, model |-> <<>>, response |-> FALSE,
          start |-> "none", pc |-> "idle"]

NoRace == [st |-> "none", from |-> <<>>, reqs |-> {}, todo |-> {}]

\* the history table when the gateway starts
InitialRows ==
  { <<>>,
    << [model |-> "A", max_tokens |-> "100", role |-> "user",
        content |-> PyStr("hi")] >> }

\* payload of a handler that has built none yet
NoPayload == [model |-> "", messages |-> <<>>, max_tokens |-> ""]

qIdle == [pc |-> "idle", model |-> "", prompt |-> "", payload |-> NoPayload,
          response |-> PyNone, h0 |-> <<>>, switch |-> PyNone, reply |-> PyNone,
          storefail |-> FALSE, nswitch |-> 0, nrelay |-> 0, agreed |-> FALSE]

NoQuery == [st |-> "none", model |-> "", prompt |-> "", h0 |-> <<>>,
            reply |-> PyNone, value |-> PyNone, storefail |-> FALSE,
            nswitch |-> 0, nrelay |-> 0, agreed |-> FALSE, sqlok |-> FALSE]

\* api.json as shipped
ApiJson == [llm_maxtokens |-> "100"]

NoAdmin == [op |-> "none", raised |-> FALSE, value |-> PyNone, list |-> <<>>,
            cleared |-> FALSE]

\* the models llm.json can name as active when the supervisor starts: a
\* local one and the remote one
InitialActive == { <<"A">>, <<"R">> }

InitLLM ==
  /\ \E a \in InitialActive :
       llm_json = [api |-> [model |-> a, pid |-> None], model |-> Registry]
  /\ procs = {}
  /\ main = [pc |-> "boot", config |-> NoConfig, model_index |-> 0]
  /\ loop = Idle
  /\ h = hIdle
  /\ pending = {}
  /\ issued = 0
  /\ last = [arg |-> <<>>, st |-> "none", resp |-> FALSE, start |-> "none"]
  /\ race = NoRace
  /\ rreq = <<>>
  /\ edits = 0

\* the gateway after main(): config loaded, history loaded from the table
InitAPI ==
  /\ api_json = ApiJson
  /\ apiconfig = api_json
  /\ alast = NoAdmin
  /\ qstat = [wait |-> 0, done |-> 0]
  /\ \E rows \in InitialRows :
       /\ db = rows
       /\ history = historyLoad(rows)
  /\ q = qIdle
  /\ queries = 0
  /\ qlast = NoQuery

\* the LLM service next to a gateway with an empty history table
Init ==
  /\ InitLLM
  /\ InitAPI
  /\ db = <<>>

\* the gateway next to an LLM service with the first model active
InitGateway ==
  /\ InitAPI
  /\ InitLLM
  /\ llm_json.api.model = Registry[1].name

\* the uvicorn process of llm:app that main started is up and serves requests
ApiAlive ==
  /\ main.pc = "serving"
  /\ main.config.api.pid # None
  /\ main.config.api.pid \in procs

\* the live model server processes
ModelProcs == procs \ {main.config.api.pid}

\* the configs that record pids: the file, main's copy and the handler's
Configs == {llm_json, main.config, h.config}

(***************************************************************************)
(* main: start the active model and the api process, store the pids, and   *)
(* on KeyboardInterrupt terminate what the in-memory config records        *)
(***************************************************************************)
MainStartup ==
  /\ main.pc = "boot"
  /\ LET cl == configLoad(llm_json) IN
     IF cl.raised
     THEN /\ main' = [main EXCEPT !.pc = "crashed"]
          /\ UNCHANGED <<llm_json, procs>>
     ELSE \E okl \in BOOLEAN, oka \in BOOLEAN :
            LET i   == cl.model_index
                rl  == run_llm(cl.config.model[i].file, cl.config.model[i].pid,
                               procs, newpid(procs, Configs), okl)
                c1  == [cl.config EXCEPT !.model[i].pid = rl.pid]
                ra  == run_api(cl.config.api.pid, rl.live,
                               newpid(rl.live, Configs \cup {c1}), oka)
                cfg == [c1 EXCEPT !.api.pid = ra.pid]
            IN  /\ procs' = ra.live
                /\ llm_json' = configStore(llm_json, cfg)
                /\ main' = [pc |-> "serving", config |-> cfg, model_index |-> i]
  /\ UNCHANGED <<loop, h, pending, issued, last, race, rreq>>
  /\ UNCHANGED <<edits, apivars>>

MainShutdown ==
  /\ main.pc = "serving"
  /\ LET t == terminate(main.config, TRUE, TRUE, procs) IN
       /\ procs' = t.live
       /\ IF t.raised
          THEN /\ main' = [main EXCEPT !.pc = "crashed", !.config = t.config]
               /\ UNCHANGED llm_json
          ELSE /\ main' = [main EXCEPT !.pc = "stopped", !.config = t.config]
               /\ llm_json' = configStore(llm_json, t.config)
  /\ race' = IF race.st = "none" THEN race ELSE [race EXCEPT !.st = "over"]
  /\ UNCHANGED <<loop, h, pending, issued, last, rreq>>
  /\ UNCHANGED <<edits, apivars>>

(***************************************************************************)
(* PUT /model/{model}                                                      *)
(***************************************************************************)
\* a client sends PUT /model/{raw}; race records the first time two requests
\* wait together while no handler runs, and the active model at that moment
ModelIssue(raw) ==
  /\ ApiAlive
  /\ issued < MaxRequests
  /\ raw \notin pending
  /\ pending' = pending \cup {raw}
  /\ issued' = issued + 1
  /\ race' = IF race.st = "none" /\ loop = Idle /\ Cardinality(pending) = 1
             THEN [st |-> "open", from |-> llm_json.api.model,
                   reqs |-> pending', todo |-> pending']
             ELSE race
  /\ UNCHANGED <<llm_json, procs, main, loop, h, last, rreq>>
  /\ UNCHANGED <<edits, apivars>>

\* the for loop with the pointer assignment outside the name test
RECURSIVE modelLoopUnguarded(_, _, _, _)
modelLoopUnguarded(s, i, model, ok) ==
  IF i > Len(s.config.model) THEN s
  ELSE LET m == s.config.model[i] IN
       IF m.name # model
       THEN modelLoopUnguarded([s EXCEPT !.config.api.model = model],
                               i + 1, model, ok)
       ELSE IF m.file # NoFile
       THEN LET r == run_llm(m.file, m.pid, s.live,
                             newpid(s.live, s.configs \cup {s.config}), ok)
            IN
            modelLoopUnguarded(
                      [s EXCEPT !.config = [s.config EXCEPT !.model[i].pid = r.pid,
                                                            !.api.model = model],
                                !.live = r.live,
                                !.response = TRUE,
                                !.start = IF r.started THEN "ok" ELSE "failed"],
                      i + 1, model, ok)
       ELSE modelLoopUnguarded([s EXCEPT !.config.api.model = model,
                                         !.response = TRUE],
                               i + 1, model, ok)

\* the for loop with the pointer assignment inside the file test
RECURSIVE modelLoopLocalOnly(_, _, _, _)
modelLoopLocalOnly(s, i, model, ok) ==
  IF i > Len(s.config.model) THEN s
  ELSE LET m == s.config.model[i] IN
       IF m.name # model THEN modelLoopLocalOnly(s, i + 1, model, ok)
       ELSE IF m.file # NoFile
       THEN LET r == run_llm(m.file, m.pid, s.live,
                             newpid(s.live, s.configs \cup {s.config}), ok)
            IN
            modelLoopLocalOnly(
                      [s EXCEPT !.config = [s.config EXCEPT !.model[i].pid = r.pid,
                                                            !.api.model = model],
                                !.live = r.live,
                                !.response = TRUE,
                                !.start = IF r.started THEN "ok" ELSE "failed"],
                      i + 1, model, ok)
       ELSE modelLoopLocalOnly([s EXCEPT !.response = TRUE], i + 1, model, ok)

\* the for loop of model(): every entry named model is started (when it has
\* a file) and made the active one
RECURSIVE modelLoop(_, _, _, _)
modelLoop(s, i, model, ok) ==
  IF i > Len(s.config.model) THEN s
  ELSE LET m == s.config.model[i] IN
       IF m.name # model THEN modelLoop(s, i + 1, model, ok)
       ELSE IF m.file # NoFile
       THEN LET r == run_llm(m.file, m.pid, s.live,
                             newpid(s.live, s.configs \cup {s.config}), ok)
            IN
            modelLoop([s EXCEPT !.config = [s.config EXCEPT !.model[i].pid = r.pid,
                                                            !.api.model = model],
                                !.live = r.live,
                                !.response = TRUE,
                                !.start = IF r.started THEN "ok" ELSE "failed"],
                      i + 1, model, ok)
       ELSE modelLoop([s EXCEPT !.config.api.model = model, !.response = TRUE],
                      i + 1, model, ok)

\* model() that terminates the model processes without the name test
ModelEnterAlwaysTerminates(raw) ==
  /\ ApiAlive
  /\ loop = Idle
  /\ raw \in pending
  /\ pending' = pending \ {raw}
  /\ race' = IF race.st = "done" \/ (race.st = "open" /\ raw \notin race.todo)
             THEN [race EXCEPT !.st = "over"] ELSE race
  /\ LET model == Strip(raw)
         cl    == configLoad(llm_json)
     IN  IF cl.raised
         THEN /\ last' = [arg |-> raw, st |-> "error", resp |-> FALSE,
                          start |-> "none"]
              /\ UNCHANGED <<procs, loop, h>>
         ELSE /\ loop' = <<"model", raw>>
              /\ UNCHANGED last
              /\ LET t == terminate(cl.config, TRUE, FALSE, procs) IN
                   /\ procs' = t.live
                   /\ h' = [config |-> t.config, model |-> model,
                            response |-> FALSE, start |-> "none",
                            pc |-> "start"]
  /\ UNCHANGED <<llm_json, main, issued, rreq>>
  /\ UNCHANGED <<edits, apivars>>

\* lines 83-96 and 121: strip the quotes, load the config, and when the
\* active model is another one terminate every model process
ModelEnter(raw) ==
  /\ ApiAlive
  /\ loop = Idle
  /\ raw \in pending
  /\ pending' = pending \ {raw}
  /\ race' = IF race.st = "done" \/ (race.st = "open" /\ raw \notin race.todo)
             THEN [race EXCEPT !.st = "over"] ELSE race
  /\ LET model == Strip(raw)
         cl    == configLoad(llm_json)
     IN  IF cl.raised
         THEN /\ last' = [arg |-> raw, st |-> "error", resp |-> FALSE,
                          start |-> "none"]
              /\ UNCHANGED <<procs, loop, h>>
         ELSE /\ loop' = <<"model", raw>>
              /\ UNCHANGED last
              /\ IF cl.config.model[cl.model_index].name # model
                 THEN LET t == terminate(cl.config, TRUE, FALSE, procs) IN
                        /\ procs' = t.live
                        /\ h' = [config |-> t.config, model |-> model,
                                 response |-> FALSE, start |-> "none",
                                 pc |-> "start"]
                 ELSE /\ procs' = procs
                      /\ h' = [config |-> cl.config, model |-> model,
                               response |-> TRUE, start |-> "none",
                               pc |-> "store"]
  /\ UNCHANGED <<llm_json, main, issued, rreq>>
  /\ UNCHANGED <<edits, apivars>>

\* lines 98-119: find the model, run it, move the pointer (then sleep)
ModelStart(raw) ==
  /\ ApiAlive
  /\ loop = <<"model", raw>>
  /\ h.pc = "start"
  /\ \E ok \in BOOLEAN :
       LET s == modelLoop([config |-> h.config, live |-> procs,
                           configs |-> Configs, response |-> FALSE,
                           start |-> "none"], 1, h.model, ok)
       IN  /\ procs' = s.live
           /\ h' = [h EXCEPT !.config = s.config, !.response = s.response,
                             !.start = s.start, !.pc = "store"]
  /\ UNCHANGED <<llm_json, main, loop, pending, issued, last, race, rreq>>
  /\ UNCHANGED <<edits, apivars>>

\* lines 124-127: store the config and answer
ModelStore(raw) ==
  /\ ApiAlive
  /\ loop = <<"model", raw>>
  /\ h.pc = "store"
  /\ llm_json' = configStore(llm_json, h.config)
  /\ last' = [arg |-> raw, st |-> "done", resp |-> h.response,
              start |-> h.start]
  /\ race' = IF race.st = "open" /\ raw \in race.todo
             THEN [race EXCEPT !.todo = @ \ {raw},
                               !.st = IF race.todo = {raw} THEN "done" ELSE "open"]
             ELSE race
  /\ loop' = Idle
  /\ h' = hIdle
  /\ UNCHANGED <<procs, main, pending, issued, rreq>>
  /\ UNCHANGED <<edits, apivars>>

(***************************************************************************)
(* ANY /relay/{path}                                                       *)
(***************************************************************************)
NoReply == [kind |-> "none", status_code |-> 0, content |-> ""]

\* relay() that answers an exception without status_code=500
relayResponseNoStatus(u) ==
  IF u.kind = "response"
  THEN [status_code |-> u.status_code, content |-> u.content]
  ELSE IF u.kind = "HTTPStatusError"
  THEN [status_code |-> u.status_code, content |-> u.content]
  ELSE [status_code |-> 200, content |-> u.content]

\* relay() that turns an upstream error status into an internal error
relayResponseRaiseForStatus(u) ==
  IF u.kind = "response" /\ u.status_code \in 200..299
  THEN [status_code |-> u.status_code, content |-> u.content]
  ELSE IF u.kind = "response"
  THEN [status_code |-> 500, content |-> "HTTPStatusError"]
  ELSE [status_code |-> 500, content |-> u.content]

\* the Response relay() builds from the outcome of client.request
relayResponse(u) ==
  IF u.kind = "response"
  THEN [status_code |-> u.status_code, content |-> u.content]
  ELSE IF u.kind = "HTTPStatusError"
  THEN [status_code |-> u.status_code, content |-> u.content]
  ELSE [status_code |-> 500, content |-> u.content]

\* what FastAPI answers when a handler raises
Unhandled == [status_code |-> 500, content |-> "Internal Server Error"]

RelayIssue ==
  /\ ApiAlive
  /\ issued < MaxRequests
  /\ issued' = issued + 1
  /\ rreq' = Append(rreq,
        [st |-> "pending", ptr |-> <<>>, model_index |-> 0, httptype |-> "",
         calls |-> 0, sentptr |-> <<>>, up |-> NoReply, resp |-> [status_code |-> 0, content |-> ""]])
  /\ UNCHANGED <<llm_json, procs, main, loop, h, pending, last, race>>
  /\ UNCHANGED <<edits, apivars>>

\* lines 152-166 and 170-181 up to the await of request.body()
RelayEnter(k) ==
  /\ ApiAlive
  /\ loop = Idle
  /\ k \in DOMAIN rreq
  /\ rreq[k].st = "pending"
  /\ LET cl == configLoad(llm_json) IN
       IF cl.raised
       THEN rreq' = [rreq EXCEPT ![k].st = "done", ![k].resp = Unhandled,
                                 ![k].ptr = llm_json.api.model]
       ELSE rreq' = [rreq EXCEPT
                       ![k].st = "loaded",
                       ![k].ptr = llm_json.api.model,
                       ![k].model_index = cl.model_index,
                       ![k].httptype =
                          IF cl.config.model[cl.model_index].auth = "sso-key"
                          THEN "http" ELSE "https"]
  /\ UNCHANGED <<llm_json, procs, main, loop, h, pending, issued, last, race>>
  /\ UNCHANGED <<edits, apivars>>

\* lines 177-182: client.request sends the request upstream and awaits;
\* sentptr keeps the active model of llm.json at that moment
RelaySend(k) ==
  /\ ApiAlive
  /\ loop = Idle
  /\ k \in DOMAIN rreq
  /\ rreq[k].st = "loaded"
  /\ rreq' = [rreq EXCEPT ![k].st = "sent", ![k].calls = @ + 1,
                          ![k].sentptr = llm_json.api.model]
  /\ UNCHANGED <<llm_json, procs, main, loop, h, pending, issued, last, race>>
  /\ UNCHANGED <<edits, apivars>>

\* relay() that writes the active model it had read back to llm.json
RelayReturnStoresPointer(k) ==
  /\ ApiAlive
  /\ loop = Idle
  /\ k \in DOMAIN rreq
  /\ rreq[k].st = "sent"
  /\ \E u \in UpstreamReplies :
       rreq' = [rreq EXCEPT ![k].st = "done", ![k].up = u,
                            ![k].resp = relayResponse(u)]
  /\ llm_json' = [llm_json EXCEPT !.api.model = rreq[k].ptr]
  /\ UNCHANGED <<procs, main, loop, h, pending, issued, last, race>>
  /\ UNCHANGED <<edits, apivars>>

\* lines 184-205: the upstream answer, or the exception, becomes the Response
RelayReturn(k) ==
  /\ ApiAlive
  /\ loop = Idle
  /\ k \in DOMAIN rreq
  /\ rreq[k].st = "sent"
  /\ \E u \in UpstreamReplies :
       rreq' = [rreq EXCEPT ![k].st = "done", ![k].up = u,
                            ![k].resp = relayResponse(u)]
  /\ UNCHANGED <<llm_json, procs, main, loop, h, pending, issued, last, race>>
  /\ UNCHANGED <<edits, apivars>>

(***************************************************************************)
(* The LLM service                                                         *)
(***************************************************************************)
Next ==
  \/ MainStartup
  \/ MainShutdown
  \/ \E raw \in RawNames : ModelIssue(raw)
  \/ \E raw \in RawNames : ModelEnter(raw)
  \/ \E raw \in RawNames : ModelStart(raw)
  \/ \E raw \in RawNames : ModelStore(raw)
  \/ RelayIssue
  \/ \E k \in 1..MaxRequests : RelayEnter(k)
  \/ \E k \in 1..MaxRequests : RelaySend(k)
  \/ \E k \in 1..MaxRequests : RelayReturn(k)

Spec == Init /\ [][Next]_vars

(***************************************************************************)
(* The LLM service started on the llm.json an earlier run left behind: the *)
(* file records pids of the api process and of the active model, main      *)
(* passes them to run_api and run_llm, and their processes are gone        *)
(***************************************************************************)
StaleApiPids == {None, 1}
StaleModelPids == {None, 2}

InitStale ==
  /\ InitAPI
  /\ db = <<>>
  /\ \E ap \in StaleApiPids, mp \in StaleModelPids :
       llm_json = [api |-> [model |-> Registry[1].name, pid |-> ap],
                   model |-> [Registry EXCEPT ![1].pid = mp]]
  /\ procs = {}
  /\ main = [pc |-> "boot", config |-> NoConfig, model_index |-> 0]
  /\ loop = Idle
  /\ h = hIdle
  /\ pending = {}
  /\ issued = 0
  /\ last = [arg |-> <<>>, st |-> "none", resp |-> FALSE, start |-> "none"]
  /\ race = NoRace
  /\ rreq = <<>>
  /\ edits = 0

SpecStale == InitStale /\ [][Next]_vars

(***************************************************************************)
(* The LLM service with a config file that is edited from outside: llm.json *)
(* is read again by every request, so an edit of the active model shows    *)
(***************************************************************************)
EditNames == { <<"Z">> }

EditConfig(name) ==
  /\ main.pc = "serving"
  /\ edits < MaxEdits
  /\ edits' = edits + 1
  /\ llm_json' = [llm_json EXCEPT !.api.model = name]
  /\ race' = IF race.st = "none" THEN race ELSE [race EXCEPT !.st = "over"]
  /\ UNCHANGED <<procs, main, loop, h, pending, issued, last, rreq>>
  /\ UNCHANGED apivars

NextExt ==
  \/ Next
  \/ \E name \in EditNames : EditConfig(name)

SpecExt == Init /\ [][NextExt]_vars

(***************************************************************************)
(* GET /query/{model}/{prompt}                                             *)
(***************************************************************************)
\* an event loop that starts a handler while another one is running
LoopShared ==
  TRUE

\* uvicorn.run serves app on one event loop, and the handlers are coroutines
\* without await: a handler starts when no other handler is running
LoopFree ==
  q.pc = "idle"

\* a /query request reaches the gateway and waits for the event loop
QueryArrive ==
  /\ queries + qstat.wait < MaxQueries
  /\ qstat' = [qstat EXCEPT !.wait = @ + 1]
  /\ UNCHANGED <<history, db, apiconfig, q, queries, qlast, api_json, alast>>
  /\ UNCHANGED llmvars

\* lines 227-267 with the user turn appended after the payload is built
QueryEnterLateAppend(model, prompt) ==
  /\ LoopFree
  /\ queries < MaxQueries
  /\ queries' = queries + 1
  /\ history' = history
  /\ \E ok \in BOOLEAN :
       LET hs == historyStore(db, model, apiconfig.llm_maxtokens, "user",
                              PyStr(prompt), ok)
       IN  /\ db' = hs.rows
           /\ q' = [qIdle EXCEPT !.pc = "switch", !.model = model,
                                 !.prompt = prompt, !.h0 = history,
                                 !.storefail = hs.failed,
                                 !.agreed = (historyLoad(db) = history),
                                 !.payload = json_data_query(model, history',
                                                apiconfig.llm_maxtokens)]
           /\ qlast' = NoQuery
  /\ alast' = [alast EXCEPT !.cleared = FALSE]
  /\ qstat' = [wait |-> IF qstat.wait > 0 THEN qstat.wait - 1 ELSE 0,
               done |-> IF q'.pc = "idle" THEN qstat.done + 1 ELSE qstat.done]
  /\ UNCHANGED <<apiconfig, api_json>>
  /\ UNCHANGED llmvars

\* lines 227-267: append the user turn, store it, build the payload; a
\* history json.dumps cannot encode raises out of the handler
QueryEnter(model, prompt) ==
  /\ LoopFree
  /\ queries < MaxQueries
  /\ queries' = queries + 1
  /\ history' = Append(history, [role |-> "user", content |-> PyStr(prompt)])
  /\ \E ok \in BOOLEAN :
       LET hs == historyStore(db, model, apiconfig.llm_maxtokens, "user",
                              PyStr(prompt), ok)
       IN  /\ db' = hs.rows
           /\ IF ~hs.raised /\ Dumpable(history')
              THEN /\ q' = [qIdle EXCEPT !.pc = "switch", !.model = model,
                                         !.prompt = prompt, !.h0 = history,
                                         !.storefail = hs.failed,
                                         !.agreed = (historyLoad(db) = history),
                                         !.payload = json_data_query(model, history',
                                                        apiconfig.llm_maxtokens)]
                   /\ qlast' = NoQuery
              ELSE /\ q' = qIdle
                   /\ qlast' = [st |-> "raised", model |-> model,
                                prompt |-> prompt, h0 |-> history,
                                reply |-> PyNone, value |-> PyNone,
                                storefail |-> hs.failed,
                                nswitch |-> 0, nrelay |-> 0,
                                agreed |-> (historyLoad(db) = history),
                                sqlok |-> ok]
  /\ alast' = [alast EXCEPT !.cleared = FALSE]
  /\ qstat' = [wait |-> IF qstat.wait > 0 THEN qstat.wait - 1 ELSE 0,
               done |-> IF q'.pc = "idle" THEN qstat.done + 1 ELSE qstat.done]
  /\ UNCHANGED <<apiconfig, api_json>>
  /\ UNCHANGED llmvars

\* lines 272-281: PUT /model/{model} on the LLM service; the answer is logged
QuerySwitch ==
  /\ q.pc = "switch"
  /\ \E t \in SwitchTransfers :
       q' = [q EXCEPT !.pc = "relay", !.switch = request(t),
                      !.response = request(t), !.nswitch = @ + 1]
  /\ UNCHANGED <<history, db, apiconfig, queries, qlast, api_json, alast,
                 qstat>>
  /\ UNCHANGED llmvars

\* lines 283-294: POST the payload to /relay/v1/chat/completions and take the
\* content of the first choice; any exception is logged and leaves response
\* as request() returned it
QueryRelay ==
  /\ q.pc = "relay"
  /\ \E t \in RelayTransfers :
       LET r == request(t)
           e == extract(r)
       IN  q' = [q EXCEPT !.pc = "update", !.reply = r, !.nrelay = @ + 1,
                          !.response = IF e.raised THEN r ELSE e.value]
  /\ UNCHANGED <<history, db, apiconfig, queries, qlast, api_json, alast,
                 qstat>>
  /\ UNCHANGED llmvars

\* lines 296-313 with the user turn taken back when there is no answer
QueryUpdateRollsBack ==
  /\ q.pc = "update"
  /\ history' = IF Truthy(q.response)
                THEN Append(history, [role |-> "system", content |-> q.response])
                ELSE q.h0
  /\ \E ok \in BOOLEAN :
       LET hs == historyStore(db, q.model, apiconfig.llm_maxtokens, "system",
                              q.response, ok)
       IN  /\ db' = hs.rows
           /\ qlast' = [st |-> IF hs.raised THEN "raised" ELSE "returned",
                        model |-> q.model, prompt |-> q.prompt,
                        h0 |-> q.h0, reply |-> q.reply,
                        value |-> IF hs.raised THEN PyNone ELSE q.response,
                        storefail |-> q.storefail \/ hs.failed,
                        nswitch |-> q.nswitch, nrelay |-> q.nrelay,
                        agreed |-> q.agreed,
                        sqlok |-> ~q.storefail /\ ok]
  /\ q' = qIdle
  /\ qstat' = [qstat EXCEPT !.done = @ + 1]
  /\ UNCHANGED <<apiconfig, queries, api_json, alast>>
  /\ UNCHANGED llmvars

\* lines 296-313: append the system turn when response is truthy, store it,
\* return response
QueryUpdate ==
  /\ q.pc = "update"
  /\ history' = IF Truthy(q.response)
                THEN Append(history, [role |-> "system", content |-> q.response])
                ELSE history
  /\ \E ok \in BOOLEAN :
       LET hs == historyStore(db, q.model, apiconfig.llm_maxtokens, "system",
                              q.response, ok)
       IN  /\ db' = hs.rows
           /\ qlast' = [st |-> IF hs.raised THEN "raised" ELSE "returned",
                        model |-> q.model, prompt |-> q.prompt,
                        h0 |-> q.h0, reply |-> q.reply,
                        value |-> IF hs.raised THEN PyNone ELSE q.response,
                        storefail |-> q.storefail \/ hs.failed,
                        nswitch |-> q.nswitch, nrelay |-> q.nrelay,
                        agreed |-> q.agreed,
                        sqlok |-> ~q.storefail /\ ok]
  /\ q' = qIdle
  /\ qstat' = [qstat EXCEPT !.done = @ + 1]
  /\ UNCHANGED <<apiconfig, queries, api_json, alast>>
  /\ UNCHANGED llmvars

NextAPI ==
  \/ \E model \in QueryModels, prompt \in Prompts : QueryEnter(model, prompt)
  \/ QuerySwitch
  \/ QueryRelay
  \/ QueryUpdate

SpecAPI == InitGateway /\ [][NextAPI]_vars

\* the gateway with requests that arrive while a query is being handled
NextConc ==
  \/ NextAPI
  \/ QueryArrive

SpecConc == InitGateway /\ [][NextConc]_vars

\* the gateway when every call of request() returns, with a reply or with
\* None (pycurl ends a transfer or raises), and the handler runs on
SpecLive ==
  /\ InitGateway
  /\ [][NextAPI]_vars
  /\ WF_vars(QuerySwitch)
  /\ WF_vars(QueryRelay)
  /\ WF_vars(QueryUpdate)

(***************************************************************************)
(* GET /tokens/max, /tokens/max/{tokens}, /history/clear, /history/list:   *)
(* handlers without await, run by the gateway's event loop between queries *)
(***************************************************************************)
TokensMax(tokens) ==
  /\ LoopFree
  /\ LET t == tokensMax(apiconfig, api_json, tokens) IN
       /\ apiconfig' = t.config
       /\ api_json' = t.file
       /\ alast' = [alast EXCEPT !.op = "tokensMax", !.raised = FALSE,
                                 !.value = t.value, !.list = <<>>]
  /\ UNCHANGED <<history, db, q, queries, qlast, qstat>>
  /\ UNCHANGED llmvars

HistoryClear ==
  /\ LoopFree
  /\ \E ok \in BOOLEAN :
       LET c == historyClear(db, history, ok) IN
         /\ db' = c.rows
         /\ history' = c.history
         /\ alast' = [op |-> "historyClear", raised |-> c.raised,
                      value |-> c.value, list |-> <<>>,
                      cleared |-> IF c.raised THEN alast.cleared ELSE TRUE]
  /\ UNCHANGED <<apiconfig, q, queries, qlast, api_json, qstat>>
  /\ UNCHANGED llmvars

HistoryList ==
  /\ LoopFree
  /\ alast' = [alast EXCEPT !.op = "historyList", !.raised = FALSE,
                            !.value = PyNone, !.list = historyList(history)]
  /\ UNCHANGED <<history, db, apiconfig, q, queries, qlast, api_json, qstat>>
  /\ UNCHANGED llmvars

NextAdmin ==
  \/ NextAPI
  \/ \E tokens \in TokenArgs : TokensMax(tokens)
  \/ HistoryClear
  \/ HistoryList

\* the gateway started on an empty history table
InitAdmin ==
  /\ InitGateway
  /\ db = <<>>

SpecAdmin == InitAdmin /\ [][NextAdmin]_vars

(***************************************************************************)
(* Properties                                                              *)
(***************************************************************************)
NamesOf(cfg) == {cfg.model[i].name : i \in DOMAIN cfg.model}
PidsOf(cfg) == {cfg.model[i].pid : i \in DOMAIN cfg.model} \ {None}
IsLocal(name) == \E i \in DOMAIN Registry :
                   Registry[i].name = name /\ Registry[i].file # NoFile
ActivePid(cfg) == (CHOOSE m \in {cfg.model[i] : i \in DOMAIN cfg.model} :
                     m.name = cfg.api.model).pid

\* C1: whatever PUT /model requests were handled (known or unknown names,
\* local or remote targets), the active-model pointer of llm.json, and the
\* one of the config a running handler is about to store, names an entry of
\* config['model']
C1_ActivePointerValid ==
  /\ llm_json.api.model \in NamesOf(llm_json)
  /\ h.pc # "idle" => h.config.api.model \in NamesOf(h.config)

\* a request for an unknown name was answered after a switch to model B
C1_Witness ==
  /\ last.st = "done"
  /\ Strip(last.arg) \notin RegistryNames
  /\ ~last.resp
  /\ llm_json.api.model = <<"B">>

\* C2: in every state, the intermediate states of a switch included, at most
\* one model process is live; between the terminate and the start of a switch
\* none is, and no config, stored or about to be stored, records more than
\* one pid
C2_AtMostOneLiveProcess ==
  /\ Cardinality(ModelProcs) <= 1
  /\ Cardinality(PidsOf(llm_json)) <= 1
  /\ h.pc = "start" => ModelProcs = {}
  /\ h.pc = "store" => Cardinality(PidsOf(h.config)) <= 1

\* a switch has started the new process and has not stored the config yet:
\* llm.json still records the pid of the process the switch killed
C2_Witness ==
  /\ h.pc = "store"
  /\ h.start = "ok"
  /\ Cardinality(ModelProcs) = 1
  /\ \E p \in PidsOf(llm_json) : p \notin procs

\* two requests for different local models were pending together while a
\* third local model was active, and both have been answered since, nothing
\* else having been handled
RaceDone ==
  /\ race.st = "done"
  /\ IsLocal(race.from)
  /\ \E x \in race.reqs, y \in race.reqs :
       /\ Strip(x) # Strip(y)
       /\ IsLocal(Strip(x)) /\ IsLocal(Strip(y))
       /\ race.from \notin {Strip(x), Strip(y)}

\* C3 as stated: after two concurrent switches A->B and A->C the active
\* model is B or C and exactly one model process is live, the active one's
C3_Original ==
  RaceDone =>
    /\ llm_json.api.model \in {Strip(x) : x \in race.reqs}
    /\ Cardinality(ModelProcs) = 1
    /\ ModelProcs = {ActivePid(llm_json)}

\* C3 amended: after two concurrent switches A->B and A->C the active model
\* is the one of B and C that was handled last, never two model processes
\* are live, and exactly one is, the active one's, when the start of that
\* last switch succeeded; when it failed no model process is live
C3_ConcurrentSwitches ==
  RaceDone =>
    /\ llm_json.api.model \in {Strip(x) : x \in race.reqs}
    /\ llm_json.api.model = Strip(last.arg)
    /\ Cardinality(ModelProcs) <= 1
    /\ last.start = "ok" =>
         /\ ActivePid(llm_json) # None
         /\ ModelProcs = {ActivePid(llm_json)}
    /\ last.start = "failed" => ModelProcs = {}

\* both switches of the race started their process
C3_Witness ==
  /\ RaceDone
  /\ last.start = "ok"
  /\ Cardinality(ModelProcs) = 1

\* the well-formed replies: a dict with choices[0].message.content
WellFormed(v) == v.ty = "dict" /\ \E l \in v.d : l[1] = ContentPath
ContentOf(v) == (CHOOSE l \in v.d : l[1] = ContentPath)[2]

\* C4: a /query whose relayed reply is well formed with content a returns a
\* and leaves the history it found, followed by the user turn and by the
\* system turn with content a
C4_WellFormedAnswer ==
  (q.pc = "idle" /\ qlast.st # "none" /\ WellFormed(qlast.reply)) =>
    /\ qlast.st = "returned"
    /\ qlast.value = PyStr(ContentOf(qlast.reply))
    /\ history = qlast.h0 \o
         << [role |-> "user", content |-> PyStr(qlast.prompt)],
            [role |-> "system", content |-> PyStr(ContentOf(qlast.reply))] >>

\* C5: a /query whose relayed reply has a body without the choices structure
\* fails, and leaves the history it found followed by the user turn only
C5_MalformedAnswer ==
  (q.pc = "idle" /\ qlast.st # "none" /\ qlast.reply.ty \in {"dict", "bytes"}
     /\ ~WellFormed(qlast.reply)) =>
    /\ qlast.st = "raised"
    /\ history = qlast.h0 \o
         << [role |-> "user", content |-> PyStr(qlast.prompt)] >>

\* C6: a relay request that finds an active-model pointer naming no entry of
\* the registry is answered with a failure and makes no upstream call
C6_NoActiveModel ==
  \A k \in DOMAIN rreq :
    (rreq[k].st # "pending" /\ rreq[k].ptr \notin RegistryNames) =>
      /\ rreq[k].st = "done"
      /\ rreq[k].resp.status_code = 500
      /\ rreq[k].up = NoReply
      /\ rreq[k].calls = 0

C6_Witness ==
  \E k \in DOMAIN rreq :
    /\ rreq[k].st = "done"
    /\ rreq[k].ptr \notin RegistryNames
    /\ rreq[k].resp = Unhandled

\* C7: when the upstream call of a relay request fails (timeout, network),
\* the relay answers 500 with the error text as body, and no step of the
\* relay changes the active-model pointer
C7_UpstreamUnreachable ==
  [][\A k \in 1..MaxRequests :
       (RelayEnter(k) \/ RelaySend(k) \/ RelayReturn(k)) =>
         /\ llm_json'.api.model = llm_json.api.model
         /\ (rreq'[k].st = "done" /\ rreq'[k].up.kind = "error") =>
              rreq'[k].resp = [status_code |-> 500,
                               content |-> rreq'[k].up.content]]_vars

C7_Witness ==
  \E k \in DOMAIN rreq :
    /\ rreq[k].st = "done"
    /\ rreq[k].up.kind = "error"
    /\ rreq[k].resp.status_code = 500
    /\ rreq[k].calls = 1

\* C8: when the upstream answers with a non-2xx status, the relay answers
\* with that status and that body
C8_StatusPassThrough ==
  \A k \in DOMAIN rreq :
    (rreq[k].st = "done" /\ rreq[k].up.kind = "response"
       /\ rreq[k].up.status_code \notin 200..299) =>
      /\ rreq[k].resp.status_code = rreq[k].up.status_code
      /\ rreq[k].resp.content = rreq[k].up.content

C8_Witness ==
  \E k \in DOMAIN rreq :
    /\ rreq[k].st = "done"
    /\ rreq[k].up.kind = "response"
    /\ rreq[k].up.status_code = 503
    /\ rreq[k].resp.status_code = 503

\* C9 as stated: PUT /model/{name} answers true exactly when name is the
\* name of an entry, and then the stored pointer is name
C9_Original ==
  [][\A raw \in RawNames :
       ModelStore(raw) =>
         /\ last'.resp <=> (raw \in RegistryNames)
         /\ last'.resp => llm_json'.api.model = raw]_vars

\* C9 amended: PUT /model/{name} answers true exactly when name without its
\* quote characters is the name of an entry, and then the pointer stored in
\* llm.json by the call is that name without quotes
C9_SwitchResult ==
  [][\A raw \in RawNames :
       ModelStore(raw) =>
         /\ last'.resp <=> (Strip(raw) \in RegistryNames)
         /\ last'.resp => llm_json'.api.model = Strip(raw)]_vars

\* a quoted name was accepted, and an unknown one refused
C9_Witness ==
  /\ last.st = "done"
  /\ last.arg = <<"'", "B", "'">>
  /\ last.resp
  /\ llm_json.api.model = <<"B">>

\* C10: a switch whose process start failed does not answer true, leaves no
\* model process running and records no pid
C10_StartFailureSurfaced ==
  (last.st = "done" /\ last.start = "failed" /\ loop = Idle
     /\ main.pc = "serving") =>
    /\ ~last.resp
    /\ ModelProcs = {}
    /\ PidsOf(llm_json) = {}

\* C11: a relay request is forwarded only to the model that is active at the
\* moment of forwarding, never to one that a switch has replaced, and whose
\* process the switch has terminated, since the relay read the config
C11_SwitchExcludesRelay ==
  \A k \in DOMAIN rreq :
    rreq[k].calls > 0 => Registry[rreq[k].model_index].name = rreq[k].sentptr

\* C12: the completion request of a /query is sent through the relay only when
\* its model-switch request succeeded (the LLM service was reached and
\* answered true)
C12_SwitchFailureAborts ==
  q.pc = "update" => Truthy(q.switch)

\* the answer a /query returns for the reply of the relay: the content of a
\* well-formed reply, the reply itself otherwise
AnswerOf(reply) == IF WellFormed(reply) THEN PyStr(ContentOf(reply)) ELSE reply

\* C13: a /query during which historyStore failed, for the user turn or for
\* the system turn, returns, and returns the answer its relayed reply
\* determines, whatever the store did
C13_StoreFailureHarmless ==
  (q.pc = "idle" /\ qlast.st # "none" /\ qlast.storefail
     /\ Dumpable(qlast.h0)) =>
    /\ qlast.st = "returned"
    /\ qlast.value = AnswerOf(qlast.reply)

\* a query returned the completion although a turn of it was not stored
C13_Witness ==
  /\ q.pc = "idle"
  /\ qlast.st = "returned"
  /\ qlast.storefail
  /\ qlast.value = PyStr("hello")
  /\ Len(history) = Len(qlast.h0) + 2
  /\ Len(db) < Len(history)

\* C14: terminate returns normally, with every pid it was to stop set to
\* null, also when a recorded pid is the pid of a process that is gone: at
\* the shutdown of the supervisor (model and api processes) and in a switch
\* (model processes)
C14_StopNeverFails ==
  [][/\ MainShutdown =>
          /\ main'.pc = "stopped"
          /\ PidsOf(main'.config) = {}
          /\ main'.config.api.pid = None
     /\ \A raw \in RawNames :
          (ModelEnter(raw) /\ h'.pc = "start") => PidsOf(h'.config) = {}]_vars

\* C15: whatever /tokens/max requests were served, the configuration file
\* api.json has the content it had when the gateway started
C15_TokensNotPersistent ==
  api_json = ApiJson

\* C16: a /history/clear that returns true leaves the history table and the
\* history list empty; as long as no /query has followed it, /history/list
\* returns the empty list, and the payload of the first /query that follows
\* has that query's user turn as its only message
C16_ClearEmptiesHistory ==
  [][/\ (HistoryClear /\ alast'.value = PyBool("true")) =>
          /\ db' = <<>>
          /\ history' = <<>>
     /\ (HistoryList /\ alast.cleared) => alast'.list = <<>>
     /\ \A model \in QueryModels, prompt \in Prompts :
          (QueryEnter(model, prompt) /\ alast.cleared /\ q'.pc = "switch") =>
            q'.payload.messages =
              << [role |-> "user", content |-> PyStr(prompt)] >>]_vars

\* the second query was the first after a clear that returned true, and it
\* has built its payload
C16_Witness ==
  /\ queries = 2
  /\ alast.op = "historyClear"
  /\ alast.value = PyBool("true")
  /\ q.pc = "switch"
  /\ Len(q.payload.messages) = 1
  /\ q.h0 = <<>>

\* the user turn of the running query
UserTurn == [role |-> "user", content |-> PyStr(q.prompt)]

\* what holds at the positions of a running query: the user turn is the last
\* turn of the history, no switch answer and no reply before their steps
QueryPositions ==
  /\ q.pc \in {"switch", "relay", "update"} => history = Append(q.h0, UserTurn)
  /\ q.pc = "switch" => (q.switch = PyNone /\ q.reply = PyNone)
  /\ q.pc = "relay" => q.reply = PyNone

\* C17: a /query goes through its positions in the order idle, user turn
\* appended (switch request next), switch request answered (relay next),
\* relay answered (update next), idle; the switch request is not sent before
\* the user turn is in the history, the completion is not relayed before
\* the switch request was answered, and the system turn is not appended
\* before the relay has answered
C17_QueryStepOrder ==
  /\ []QueryPositions
  /\ [][q'.pc # q.pc =>
          /\ <<q.pc, q'.pc>> \in { <<"idle", "switch">>, <<"switch", "relay">>,
                                  <<"relay", "update">>, <<"update", "idle">> }
          /\ history' # history => q.pc \in {"idle", "update"}]_vars

\* the relay has answered a query whose switch request was answered true, and
\* the system turn is not in the history yet
C17_Witness ==
  /\ q.pc = "update"
  /\ q.switch = PyBool("true")
  /\ WellFormed(q.reply)
  /\ history = Append(q.h0, UserTurn)
  /\ q.h0 # <<>>

\* C18: the payload of a /query has as messages the whole history list as it
\* is when the payload is built, in order, which ends with the user turn of
\* the query, and has the requested model and the max-token value of the
\* gateway's config
C18_PayloadIsHistory ==
  q.pc \in {"switch", "relay", "update"} =>
    /\ q.payload.messages = history
    /\ q.payload.messages = Append(q.h0, UserTurn)
    /\ q.payload.model = q.model
    /\ q.payload.max_tokens = apiconfig.llm_maxtokens

\* a payload with three messages, built after /tokens/max/50
C18_Witness ==
  /\ q.pc = "relay"
  /\ Len(q.payload.messages) = 3
  /\ q.payload.messages[3] = UserTurn
  /\ q.payload.model = "B"
  /\ q.payload.max_tokens = "50"

\* C19: PUT /model/{name} for the model that is active terminates and starts
\* no process, stores llm.json as it was (same pointer, same pids) and
\* answers true
C19_SameModelNoOp ==
  [][\A raw \in RawNames :
       /\ (ModelEnter(raw) /\ Strip(raw) = llm_json.api.model) =>
            /\ procs' = procs
            /\ h'.pc = "store"
            /\ h'.config = llm_json
       /\ (ModelStore(raw) /\ Strip(raw) = llm_json.api.model) =>
            /\ procs' = procs
            /\ llm_json' = llm_json
            /\ last'.resp]_vars

\* a request for the active local model was answered while its process runs
C19_Witness ==
  /\ last.st = "done"
  /\ last.resp
  /\ last.start = "none"
  /\ Strip(last.arg) = llm_json.api.model
  /\ IsLocal(llm_json.api.model)
  /\ ActivePid(llm_json) \in ModelProcs

IsRemote(name) == \E i \in DOMAIN Registry :
                    Registry[i].name = name /\ Registry[i].file = NoFile

\* C20 as stated: a switch to a remote model terminates no process and
\* starts none, and changes nothing of llm.json but the pointer
C20_Original ==
  [][\A raw \in RawNames :
       IsRemote(Strip(raw)) =>
         /\ (ModelEnter(raw) \/ ModelStart(raw) \/ ModelStore(raw)) =>
              procs' = procs
         /\ ModelStore(raw) =>
              llm_json' = [llm_json EXCEPT !.api.model = Strip(raw)]]_vars

\* C20 amended: a switch to a remote model starts no process; it terminates
\* every running model process, stores no pid and sets the pointer to the
\* remote model
C20_RemoteSwitch ==
  [][\A raw \in RawNames :
       IsRemote(Strip(raw)) =>
         /\ (ModelEnter(raw) /\ h'.pc = "start") =>
              /\ procs' = procs \ ModelProcs
              /\ PidsOf(h'.config) = {}
         /\ ModelStart(raw) =>
              /\ procs' = procs
              /\ h'.start = "none"
              /\ h'.response
         /\ ModelStore(raw) =>
              /\ procs' = procs
              /\ llm_json'.api.model = Strip(raw)
              /\ PidsOf(llm_json') = {}
              /\ last'.resp]_vars

\* a switch from a running local model to the remote one was answered: the
\* process main had started is gone and no model process is live
C20_Witness ==
  /\ last.st = "done"
  /\ IsRemote(Strip(last.arg))
  /\ last.resp
  /\ llm_json.api.model = Strip(last.arg)
  /\ PidsOf(main.config) # {}
  /\ PidsOf(main.config) \cap procs = {}
  /\ ModelProcs = {}
  /\ ApiAlive

\* C21: when main has started its processes, when main has terminated them
\* and when a PUT /model has been handled, llm.json holds the pointer and
\* the pid of every entry that the config in the memory of that process
\* holds
C21_MutationsPersisted ==
  [][/\ (MainStartup /\ main'.pc = "serving") => llm_json' = main'.config
     /\ (MainShutdown /\ main'.pc = "stopped") => llm_json' = main'.config
     /\ \A raw \in RawNames :
          ModelStore(raw) =>
            /\ llm_json'.api.model = h.config.api.model
            /\ \A i \in DOMAIN Registry :
                 llm_json'.model[i].pid = h.config.model[i].pid]_vars

\* a switch to B has started B's process and has been answered: llm.json
\* records the pid of the live process
C21_Witness ==
  /\ last.st = "done"
  /\ last.start = "ok"
  /\ loop = Idle
  /\ llm_json.api.model = <<"B">>
  /\ llm_json.model[2].pid \in procs

\* C22: a /query that has ended has sent one model-switch request and at
\* most one completion request, and a relay request has made at most one
\* upstream call
C22_NoRetries ==
  /\ (q.pc = "idle" /\ qlast.st # "none") =>
       /\ qlast.nswitch = 1
       /\ qlast.nrelay <= 1
  /\ \A k \in DOMAIN rreq : rreq[k].calls <= 1

IsPrefix(a, b) == Len(a) <= Len(b) /\ SubSeq(b, 1, Len(a)) = a

\* C23: a step that is not /history/clear leaves the history list a prefix
\* of what it becomes, and the list a /query found is a prefix of the list
\* it leaves, whether it returns or raises
C23_AppendOnly ==
  [][/\ ~IsPrefix(history, history') => HistoryClear
     /\ QueryUpdate => IsPrefix(q.h0, history')
     /\ \A model \in QueryModels, prompt \in Prompts :
          QueryEnter(model, prompt) => IsPrefix(history, history')]_vars

\* a query without answer has returned: the turns it found and its user turn
C23_Witness ==
  /\ q.pc = "idle"
  /\ qlast.st = "returned"
  /\ qlast.value = PyNone
  /\ qlast.h0 # <<>>
  /\ history = Append(qlast.h0,
                       [role |-> "user", content |-> PyStr(qlast.prompt)])

\* C24: no step of a relay request, whatever its outcome, changes llm.json
\* (pointer, pids), the live processes, the config main holds, the locals
\* of a switch, or the record of another relay request
C24_RelayReadOnly ==
  [][\A k \in 1..MaxRequests :
       (RelayEnter(k) \/ RelaySend(k) \/ RelayReturn(k)) =>
         /\ llm_json' = llm_json
         /\ procs' = procs
         /\ main' = main
         /\ h' = h
         /\ \A j \in DOMAIN rreq : j # k => rreq'[j] = rreq[j]]_vars

\* two relay requests overlap: the second was answered after a network
\* failure while the first, received before it, waits for its upstream
C24_Witness ==
  /\ Len(rreq) = 2
  /\ rreq[1].st = "sent"
  /\ rreq[2].st = "done"
  /\ rreq[2].up.kind = "error"

\* C25: when main has handled the KeyboardInterrupt, no process is live, the
\* model process a switch started after startup included, and llm.json
\* records no pid
C25_ShutdownKillsAll ==
  main.pc = "stopped" =>
    /\ procs = {}
    /\ PidsOf(llm_json) = {}
    /\ llm_json.api.pid = None

\* C26: no step of a PUT /model for a name that no entry has terminates a
\* process, and the call stores llm.json as it was: same pointer, same pids
C26_UnknownNameNoEffect ==
  [][\A raw \in RawNames :
       Strip(raw) \notin RegistryNames =>
         /\ (ModelEnter(raw) \/ ModelStart(raw) \/ ModelStore(raw)) =>
              procs' = procs
         /\ ModelStore(raw) => llm_json' = llm_json]_vars

\* C27: when a /query has ended, returned or raised, during which sqlite
\* was available for every insert (sqlok), and the history list and the
\* table held the same turns when it began, they hold the same turns
C27_MemoryMatchesStore ==
  (q.pc = "idle" /\ qlast.st # "none" /\ qlast.agreed /\ qlast.sqlok) =>
    historyLoad(db) = history

OnlyActiveHasPid(cfg) ==
  \A i \in DOMAIN cfg.model :
    cfg.model[i].pid # None => cfg.model[i].name = cfg.api.model

\* C28: after startup and whatever PUT /model requests, in llm.json, in the
\* config main holds and in the config a switch is about to store, an entry
\* with a pid is the entry the active-model pointer names
C28_OnlyActiveHasPid ==
  /\ OnlyActiveHasPid(llm_json)
  /\ main.pc # "boot" => OnlyActiveHasPid(main.config)
  /\ h.pc = "store" => OnlyActiveHasPid(h.config)

\* after startup with A a switch to C was answered: the one pid llm.json
\* records is the pid of C's live process
C28_Witness ==
  /\ last.st = "done"
  /\ loop = Idle
  /\ llm_json.api.model = <<"C">>
  /\ PidsOf(main.config) # {}
  /\ PidsOf(llm_json) = {llm_json.model[3].pid}
  /\ llm_json.model[3].pid \in ModelProcs

\* while a /query is being handled, every other query that entered has ended,
\* the list is the list it found plus its own user turn, and so is the
\* messages field of its payload
QueryAlone ==
  q.pc # "idle" =>
    /\ queries = qstat.done + 1
    /\ history = Append(q.h0, UserTurn)
    /\ q.payload.messages = Append(q.h0, UserTurn)

\* C29: with /query requests arriving while another one is handled, the turns
\* of two queries do not interleave in the history list: a query that got an
\* answer leaves the list it found, its user turn and right after it its
\* system turn, and its payload holds no user turn of a query that has not
\* ended
C29_NoInterleaving ==
  /\ []QueryAlone
  /\ [][(q.pc = "update" /\ q'.pc = "idle" /\ Truthy(q.response)) =>
          history' = q.h0 \o <<UserTurn,
                                [role |-> "system", content |-> q.response]>>]_vars

\* a second /query request waits while the first one, with its answer, is
\* about to update the history
C29_Witness ==
  /\ q.pc = "update"
  /\ qstat.wait = 1
  /\ qstat.done = 0
  /\ WellFormed(q.reply)
  /\ Truthy(q.response)

\* C30: every /query that began ends, and it ends by returning a value, the
\* answer or an empty result, never with an unhandled error, whether the
\* switch and the relay succeed or fail, given that every call of the LLM
\* service returns or fails
C30_QueryCompletes ==
  /\ [](qlast.st \in {"none", "returned"})
  /\ (q.pc # "idle") ~> (q.pc = "idle" /\ qlast.st = "returned")

\* a /query that began ends, returned or raised
QueryEnds ==
  (q.pc # "idle") ~> (q.pc = "idle" /\ qlast.st # "none")

====
